---- MODULE Spec2Model ----
(***************************************************************************)
(* Model of piker/exchange/_client.py: the client-side order book          *)
(* (OrderBook.send / modify / cancel over a bounded trio memory channel),  *)
(* the get_orders() singleton factory, the send_order_cmds() relay and     *)
(* the open_ems() daemon scope with its readiness handshake.               *)
(***************************************************************************)
EXTENDS Integers, Sequences, FiniteSets, TLC

\* ------------------------------------------------------------------ bounds

\* Buffer size of the memory channel.  The program opens it with 100
\* (trio.open_memory_channel(100)); the model is checked with a small
\* buffer so that the full channel is reached.
Capacity == 2

\* Number of OrderBook method calls (send, cancel, modify) in one run.
MaxCalls == 4

\* Number of concurrent callers of send_order_cmds().
MaxRelays == 2

\* Number of open_ems() scopes entered in one run, one after the other.
MaxSessions == 2

\* Number of messages delivered on trades_stream in one run.
MaxEvents == 3

\* trio.fail_after(10) in open_ems.
Deadline == 10

\* ------------------------------------------------------------------ inputs

Relays == 1..MaxRelays
Sessions == 1..MaxSessions

\* Symbol objects: .key and .brokers
AAPL == [key |-> "AAPL", brokers |-> {"ib"}]
MSFT == [key |-> "MSFT", brokers |-> {"ib", "questrade"}]

\* Argument tuples of OrderBook.send
SendArgs ==
    { [uuid |-> "abc-1", symbol |-> AAPL, price |-> 150, size |-> 100,
       action |-> "buy", exec_mode |-> "dark"],
      [uuid |-> "abc-1", symbol |-> MSFT, price |-> 151, size |-> 50,
       action |-> "sell", exec_mode |-> "live"],
      [uuid |-> "abc-2", symbol |-> AAPL, price |-> 150, size |-> 100,
       action |-> "alert", exec_mode |-> "dark"] }

Uuids == {"abc-1", "abc-2"}

ModifyPrices == {151}

\* Who drives a send_order_cmds() generator: the daemon of an open_ems
\* scope, or some other consumer that called the function.
Other == 0
Consumers == Sessions \cup {Other}

VARIABLES
    orders,            \* module global _orders: "None" or "OrderBook"
    sent_orders,       \* OrderBook._sent_orders: oid -> command
    chan,              \* buffer of the memory channel (_to_ems / _from_order_book)
    ready_to_receive,  \* OrderBook._ready_to_receive (trio.Event): is it set
    relay,             \* per send_order_cmds() generator: [pc, owner]
    ncalls,            \* number of OrderBook method calls made
    last,              \* the last OrderBook method call and how it ended
    sent_args,         \* history: oid -> arguments of the last send call for it
    enqueued,          \* history: commands accepted by send_nowait, in order
    forwarded,         \* history: commands yielded by the relays, in order
    events,            \* history: messages delivered on trades_stream, in order
    pc,                \* per open_ems scope: where its coroutine stands
    daemon,            \* per open_ems scope: the emsd actor it spawned
    stream,            \* per open_ems scope: trades_stream
    clock,             \* per open_ems scope: time waited under fail_after
    err                \* per open_ems scope: exception travelling through it

bookvars == <<orders, sent_orders, chan, ready_to_receive>>
histvars == <<ncalls, last, sent_args, enqueued, forwarded, events>>
emsvars == <<pc, daemon, stream, clock, err>>
vars == <<orders, sent_orders, chan, ready_to_receive, relay, ncalls, last,
          sent_args, enqueued, forwarded, events, pc, daemon, stream, clock,
          err>>

\* ------------------------------------------------------------------ helpers

\* variant: the dict is replaced by one that holds the new entry only
DictSetOnly(d, k, v) == [x \in {k} |-> v]

\* variant: d.setdefault(k, v), an existing entry is kept
DictSetDefault(d, k, v) == [x \in DOMAIN d \cup {k} |-> IF x \in DOMAIN d THEN d[x] ELSE v]

\* d[k] = v on a dict: insert or overwrite
DictSet(d, k, v) == [x \in DOMAIN d \cup {k} |-> IF x = k THEN v ELSE d[x]]

EmptyDict == [x \in {} |-> x]

IsPrefix(s, t) == Len(s) <= Len(t) /\ SubSeq(t, 1, Len(s)) = s

\* the cmd dict literal of OrderBook.send
SendCmd(a) ==
    [action |-> a.action,
     price |-> a.price,
     size |-> a.size,
     symbol |-> a.symbol.key,
     brokers |-> a.symbol.brokers,
     oid |-> a.uuid,
     exec_mode |-> a.exec_mode]

\* variant: the message copies the stored command's action
CancelMsgStoredAction(uuid, cmd) ==
    [action |-> cmd.action,
     oid |-> uuid,
     symbol |-> cmd.symbol]

\* the msg dict literal of OrderBook.cancel
CancelMsg(uuid, cmd) ==
    [action |-> "cancel",
     oid |-> uuid,
     symbol |-> cmd.symbol]

\* variant: a full buffer drops the command without raising
send_nowait_drop(buf, cmd) ==
    IF Len(buf) < Capacity
    THEN [buf |-> Append(buf, cmd), raised |-> "none"]
    ELSE [buf |-> buf, raised |-> "none"]

\* MemorySendChannel.send_nowait on a buffer of max_buffer_size Capacity:
\* the buffer after the call and whether trio.WouldBlock was raised
send_nowait(buf, cmd) ==
    IF Len(buf) < Capacity
    THEN [buf |-> Append(buf, cmd), raised |-> "none"]
    ELSE [buf |-> buf, raised |-> "WouldBlock"]

\* variant: an unknown uuid is looked up with .get() and the call returns
cancel_swallow(d, buf, uuid) ==
    IF uuid \notin DOMAIN d
    THEN [buf |-> buf, raised |-> "none", sent |-> <<>>]
    ELSE LET msg == CancelMsg(uuid, d[uuid])
             res == send_nowait(buf, msg)
         IN [buf |-> res.buf, raised |-> res.raised,
             sent |-> IF res.raised = "none" THEN <<msg>> ELSE <<>>]

\* "the possible set of responses from the stream" (open_ems docstring),
\* by the execution mode their prefix names
Submitted(mode) == IF mode = "dark" THEN "dark_submitted" ELSE "broker_submitted"

Terminals(mode) ==
    IF mode = "dark"
    THEN {"dark_cancelled", "dark_executed"}
    ELSE {"broker_cancelled", "broker_executed", "broker_filled"}

Responses ==
    {Submitted(m) : m \in {"dark", "live"}}
        \cup Terminals("dark") \cup Terminals("live")

\* the messages of the stream that are about one order
EventsOf(evs, oid) == SelectSeq(evs, LAMBDA e : e.oid = oid)

\* the state of an order as the stream has reported it: "sent" until the
\* first message, then the latest message about it
StateOf(evs, oid) ==
    LET mine == EventsOf(evs, oid)
    IN IF mine = <<>> THEN "sent" ELSE mine[Len(mine)].ev

IsTerminal(ev) == ev \in Terminals("dark") \cup Terminals("live")

\* variant: an order the stream has reported terminal is not cancelled again
cancel_unless_terminal(d, buf, uuid) ==
    IF uuid \notin DOMAIN d
    THEN [buf |-> buf, raised |-> "KeyError", sent |-> <<>>]
    ELSE IF IsTerminal(StateOf(events, uuid))
    THEN [buf |-> buf, raised |-> "none", sent |-> <<>>]
    ELSE LET msg == CancelMsg(uuid, d[uuid])
             res == send_nowait(buf, msg)
         IN [buf |-> res.buf, raised |-> res.raised,
             sent |-> IF res.raised = "none" THEN <<msg>> ELSE <<>>]

\* the body of OrderBook.cancel on registry d and channel buffer buf: the
\* buffer after the call, the exception it raised and the message it enqueued
cancel(d, buf, uuid) ==
    IF uuid \notin DOMAIN d
    THEN \* cmd = self._sent_orders[uuid] raises KeyError
         [buf |-> buf, raised |-> "KeyError", sent |-> <<>>]
    ELSE LET msg == CancelMsg(uuid, d[uuid])
             res == send_nowait(buf, msg)
         IN [buf |-> res.buf, raised |-> res.raised,
             sent |-> IF res.raised = "none" THEN <<msg>> ELSE <<>>]

\* variant: the newest item is delivered first
receive_newest(buf) == buf[Len(buf)]

\* the item `async for cmd in orders_stream` receives next
receive(buf) == Head(buf)

\* variant: taking an item empties the buffer
receive_rest_clear(buf) == <<>>

\* the buffer once that item is taken
receive_rest(buf) == Tail(buf)

\* get_orders(): the singleton is created on first use
get_orders == "OrderBook"

Call(op, uuid, raised, ret) ==
    [op |-> op, uuid |-> uuid, raised |-> raised, ret |-> ret]

\* ------------------------------------------------------------------ initial state

Init ==
    /\ orders = "None"
    /\ sent_orders = EmptyDict
    /\ chan = <<>>
    /\ ready_to_receive = FALSE
    /\ relay = [r \in Relays |-> [pc |-> "none", owner |-> Other]]
    /\ ncalls = 0
    /\ last = Call("none", "", "none", <<>>)
    /\ sent_args = EmptyDict
    /\ enqueued = <<>>
    /\ forwarded = <<>>
    /\ events = <<>>
    /\ pc = [s \in Sessions |-> "idle"]
    /\ daemon = [s \in Sessions |-> "none"]
    /\ stream = [s \in Sessions |-> "none"]
    /\ clock = [s \in Sessions |-> 0]
    /\ err = [s \in Sessions |-> "none"]

\* ------------------------------------------------------------------ order book

\* client code obtains the book: get_orders()
GetOrders ==
    /\ orders = "None"
    /\ orders' = get_orders
    /\ UNCHANGED <<sent_orders, chan, ready_to_receive, relay>>
    /\ UNCHANGED histvars
    /\ UNCHANGED emsvars

\* OrderBook.send(uuid, symbol, price, size, action, exec_mode)
Send(a) ==
    /\ orders = "OrderBook"
    /\ ncalls < MaxCalls
    /\ LET cmd == SendCmd(a)
           res == send_nowait(chan, cmd)
       IN /\ sent_orders' = DictSet(sent_orders, a.uuid, cmd)
          /\ chan' = res.buf
          /\ sent_args' = (a.uuid :> a) @@ sent_args
          /\ enqueued' = IF res.raised = "none" THEN Append(enqueued, cmd)
                         ELSE enqueued
          /\ last' = Call("send", a.uuid, res.raised,
                          IF res.raised = "none" THEN <<cmd>> ELSE <<>>)
    /\ ncalls' = ncalls + 1
    /\ UNCHANGED <<orders, ready_to_receive, relay, forwarded, events>>
    /\ UNCHANGED emsvars

\* OrderBook.modify(oid, price): the body is `...`
Modify(oid, price) ==
    /\ orders = "OrderBook"
    /\ ncalls < MaxCalls
    /\ last' = Call("modify", oid, "none", <<>>)
    /\ ncalls' = ncalls + 1
    /\ UNCHANGED <<orders, sent_orders, chan, ready_to_receive, relay>>
    /\ UNCHANGED <<sent_args, enqueued, forwarded, events>>
    /\ UNCHANGED emsvars

\* OrderBook.cancel(uuid)
Cancel(uuid) ==
    /\ orders = "OrderBook"
    /\ ncalls < MaxCalls
    /\ LET res == cancel(sent_orders, chan, uuid)
       IN /\ chan' = res.buf
          /\ enqueued' = enqueued \o res.sent
          /\ last' = Call("cancel", uuid, res.raised, <<>>)
    /\ ncalls' = ncalls + 1
    /\ UNCHANGED <<orders, sent_orders, ready_to_receive, relay>>
    /\ UNCHANGED <<sent_args, forwarded, events>>
    /\ UNCHANGED emsvars

\* ------------------------------------------------------------------ relay

\* variant: the generator goes to the channel without setting the event
RelayStartNoSet(r, who) ==
    /\ relay[r].pc = "none"
    /\ r > 1 => relay[r - 1].pc # "none"
    /\ who \in Sessions => daemon[who] = "running"
    /\ orders' = get_orders
    /\ relay' = [relay EXCEPT ![r] = [pc |-> "running", owner |-> who]]
    /\ UNCHANGED <<sent_orders, chan, ready_to_receive>>
    /\ UNCHANGED histvars
    /\ UNCHANGED emsvars

\* send_order_cmds() up to its first wait on the channel: get_orders(),
\* then book._ready_to_receive.set().  `who` is the consumer driving the
\* generator: the daemon of a scope (which must be running) or another caller.
RelayStart(r, who) ==
    /\ relay[r].pc = "none"
    /\ r > 1 => relay[r - 1].pc # "none"
    /\ who \in Sessions => daemon[who] = "running"
    /\ orders' = get_orders
    /\ ready_to_receive' = TRUE
    /\ relay' = [relay EXCEPT ![r] = [pc |-> "running", owner |-> who]]
    /\ UNCHANGED <<sent_orders, chan>>
    /\ UNCHANGED histvars
    /\ UNCHANGED emsvars

\* one turn of `async for cmd in orders_stream: ... yield cmd`
RelayStep(r) ==
    /\ relay[r].pc = "running"
    /\ chan # <<>>
    /\ forwarded' = Append(forwarded, [cmd |-> receive(chan), by |-> r])
    /\ chan' = receive_rest(chan)
    /\ UNCHANGED <<orders, sent_orders, ready_to_receive, relay>>
    /\ UNCHANGED <<ncalls, last, sent_args, enqueued, events>>
    /\ UNCHANGED emsvars

\* the driver of a generator has gone away (its daemon was stopped): the
\* generator is closed and takes nothing more from the channel
RelayClose(r) ==
    /\ relay[r].pc = "running"
    /\ relay[r].owner \in Sessions
    /\ daemon[relay[r].owner] = "stopped"
    /\ relay' = [relay EXCEPT ![r].pc = "closed"]
    /\ UNCHANGED bookvars
    /\ UNCHANGED histvars
    /\ UNCHANGED emsvars

\* ------------------------------------------------------------------ open_ems

\* a scope is over once its coroutine has returned or raised
Ended(s) == pc[s] \in {"done", "raised"}

\* open_ems() is entered: tractor.open_nursery(), n.start_actor('emsd')
OpenEms(s) ==
    /\ pc[s] = "idle"
    /\ s > 1 => pc[s - 1] # "idle"
    /\ pc' = [pc EXCEPT ![s] = "started"]
    /\ daemon' = [daemon EXCEPT ![s] = "running"]
    /\ UNCHANGED <<stream, clock, err>>
    /\ UNCHANGED bookvars
    /\ UNCHANGED relay
    /\ UNCHANGED histvars

\* portal.run(_ems_main, ...) returns trades_stream; book = get_orders();
\* trio.fail_after(10) is entered and the wait on the event begins
StreamUp(s) ==
    /\ pc[s] = "started"
    /\ stream' = [stream EXCEPT ![s] = "open"]
    /\ orders' = get_orders
    /\ clock' = [clock EXCEPT ![s] = 0]
    /\ pc' = [pc EXCEPT ![s] = "waiting"]
    /\ UNCHANGED <<daemon, err>>
    /\ UNCHANGED <<sent_orders, chan, ready_to_receive, relay>>
    /\ UNCHANGED histvars

\* book._ready_to_receive.wait() returns: the event is set; the scope yields
\* (book, trades_stream) to its caller
WaitReturns(s) ==
    /\ pc[s] = "waiting"
    /\ ready_to_receive
    /\ pc' = [pc EXCEPT ![s] = "yielded"]
    /\ clock' = [clock EXCEPT ![s] = 0]
    /\ UNCHANGED <<daemon, stream, err>>
    /\ UNCHANGED bookvars
    /\ UNCHANGED relay
    /\ UNCHANGED histvars

\* variant: the deadline is a move_on_after, the block is left quietly and
\* the scope goes on to yield
TickMoveOn(s) ==
    /\ pc[s] = "waiting"
    /\ ~ready_to_receive
    /\ clock' = [clock EXCEPT ![s] = clock[s] + 1]
    /\ IF clock[s] + 1 >= Deadline
       THEN pc' = [pc EXCEPT ![s] = "yielded"]
       ELSE UNCHANGED pc
    /\ UNCHANGED <<daemon, stream, err>>
    /\ UNCHANGED bookvars
    /\ UNCHANGED relay
    /\ UNCHANGED histvars

\* a time unit passes while the wait is blocked; at the deadline fail_after
\* raises trio.TooSlowError inside the nursery block, whose error path
\* cancels the child actors
Tick(s) ==
    /\ pc[s] = "waiting"
    /\ ~ready_to_receive
    /\ clock' = [clock EXCEPT ![s] = clock[s] + 1]
    /\ IF clock[s] + 1 >= Deadline
       THEN /\ err' = [err EXCEPT ![s] = "TooSlowError"]
            /\ pc' = [pc EXCEPT ![s] = "cancelling"]
       ELSE UNCHANGED <<err, pc>>
    /\ UNCHANGED <<daemon, stream>>
    /\ UNCHANGED bookvars
    /\ UNCHANGED relay
    /\ UNCHANGED histvars

\* the caller's `async with open_ems(...)` body ends normally: the generator
\* resumes after the yield and the nursery block is left without error, so
\* the nursery waits for its child actors to finish
BodyReturns(s) ==
    /\ pc[s] = "yielded"
    /\ pc' = [pc EXCEPT ![s] = "joining"]
    /\ UNCHANGED <<daemon, stream, clock, err>>
    /\ UNCHANGED bookvars
    /\ UNCHANGED relay
    /\ UNCHANGED histvars

\* the caller's body raises: the error is thrown in at the yield and leaves
\* the nursery block, whose error path cancels the child actors
BodyRaises(s) ==
    /\ pc[s] = "yielded"
    /\ err' = [err EXCEPT ![s] = "BodyError"]
    /\ pc' = [pc EXCEPT ![s] = "cancelling"]
    /\ UNCHANGED <<daemon, stream, clock>>
    /\ UNCHANGED bookvars
    /\ UNCHANGED relay
    /\ UNCHANGED histvars

\* the emsd actor is cancelled by the nursery: it stops and its stream ends
DaemonCancelled(s) ==
    /\ pc[s] = "cancelling"
    /\ daemon[s] = "running"
    /\ daemon' = [daemon EXCEPT ![s] = "stopped"]
    /\ stream' = [stream EXCEPT ![s] = IF stream[s] = "open" THEN "closed"
                                        ELSE stream[s]]
    /\ UNCHANGED <<pc, clock, err>>
    /\ UNCHANGED bookvars
    /\ UNCHANGED relay
    /\ UNCHANGED histvars

\* variant: leaving the scope clears the event for the next session
ScopeExitClearsGate(s) ==
    /\ pc[s] \in {"cancelling", "joining"}
    /\ daemon[s] = "stopped"
    /\ pc' = [pc EXCEPT ![s] = IF err[s] = "none" THEN "done" ELSE "raised"]
    /\ ready_to_receive' = FALSE
    /\ UNCHANGED <<daemon, stream, clock, err>>
    /\ UNCHANGED <<orders, sent_orders, chan>>
    /\ UNCHANGED relay
    /\ UNCHANGED histvars

\* the nursery block is left once no child actor remains: open_ems
\* returns, or re-raises the error that went through it
ScopeExit(s) ==
    /\ pc[s] \in {"cancelling", "joining"}
    /\ daemon[s] = "stopped"
    /\ pc' = [pc EXCEPT ![s] = IF err[s] = "none" THEN "done" ELSE "raised"]
    /\ UNCHANGED <<daemon, stream, clock, err>>
    /\ UNCHANGED bookvars
    /\ UNCHANGED relay
    /\ UNCHANGED histvars

\* ------------------------------------------------------------------ emsd

\* the order commands the daemon has been handed for an order
CmdsFor(oid) ==
    {i \in 1..Len(forwarded) :
        forwarded[i].cmd.oid = oid /\ forwarded[i].cmd.action # "cancel"}

\* the exec_mode the daemon read off the first of them
ModeFor(oid) ==
    LET i == CHOOSE j \in CmdsFor(oid) : \A k \in CmdsFor(oid) : j <= k
    IN forwarded[i].cmd.exec_mode

\* variant: a report that is delivered again is followed by any terminal one
NextEventsAnyTerminal(mode, st) ==
    IF st = "sent" THEN {Submitted(mode)}
    ELSE Terminals(mode)

\* what the daemon may report next for an order in state st: submission
\* first, then one terminal state of the same mode; after that only the
\* same terminal report again (delivery is not exactly-once)
NextEvents(mode, st) ==
    IF st = "sent" THEN {Submitted(mode)}
    ELSE IF st = Submitted(mode) THEN Terminals(mode)
    ELSE {st}

\* emsd reports on an order it was handed: one message on trades_stream,
\* stamped with the number of commands enqueued so far
DaemonReports(oid, ev) ==
    /\ Len(events) < MaxEvents
    /\ CmdsFor(oid) # {}
    /\ ev \in NextEvents(ModeFor(oid), StateOf(events, oid))
    /\ events' = Append(events, [oid |-> oid, ev |-> ev, at |-> Len(enqueued)])
    /\ UNCHANGED bookvars
    /\ UNCHANGED relay
    /\ UNCHANGED <<ncalls, last, sent_args, enqueued, forwarded>>
    /\ UNCHANGED emsvars

\* the order book, its channel and the relay generators
NextBook ==
    \/ GetOrders
    \/ \E a \in SendArgs : Send(a)
    \/ \E u \in Uuids, p \in ModifyPrices : Modify(u, p)
    \/ \E u \in Uuids : Cancel(u)
    \/ \E r \in Relays : RelayStart(r, Other)
    \/ \E r \in Relays : RelayStep(r)

\* the open_ems scopes, their daemons and the relay generators they drive
NextEms ==
    \/ GetOrders
    \/ \E r \in Relays, who \in Consumers : RelayStart(r, who)
    \/ \E r \in Relays : RelayClose(r)
    \/ \E s \in Sessions : OpenEms(s)
    \/ \E s \in Sessions : StreamUp(s)
    \/ \E s \in Sessions : WaitReturns(s)
    \/ \E s \in Sessions : Tick(s)
    \/ \E s \in Sessions : BodyReturns(s)
    \/ \E s \in Sessions : BodyRaises(s)
    \/ \E s \in Sessions : DaemonCancelled(s)
    \/ \E s \in Sessions : ScopeExit(s)

Next == NextBook \/ NextEms

Spec == Init /\ [][Next]_vars

\* the order book on its own: no open_ems scope is entered
SpecBook == Init /\ [][NextBook]_vars

\* the daemon scopes on their own: no OrderBook method is called
SpecEms == Init /\ [][NextEms]_vars

\* the same, with the progress the nursery's error path makes: a cancelled
\* actor stops, and the nursery block is left once its actors have stopped
SpecEmsFair ==
    /\ SpecEms
    /\ \A s \in Sessions : WF_vars(DaemonCancelled(s))
    /\ \A s \in Sessions : WF_vars(ScopeExit(s))

\* one order of a session: a send for abc-1
SessionArgs == {a \in SendArgs : a.uuid = "abc-1" /\ a.action = "buy"}

\* the daemon scopes together with the orders of a session
NextSession ==
    \/ NextEms
    \/ \E a \in SessionArgs : Send(a)
    \/ \E r \in Relays : RelayStep(r)

SpecSession == Init /\ [][NextSession]_vars

\* the order book with one relay generator
NextOneRelay ==
    \/ GetOrders
    \/ \E a \in SendArgs : Send(a)
    \/ \E u \in Uuids, p \in ModifyPrices : Modify(u, p)
    \/ \E u \in Uuids : Cancel(u)
    \/ RelayStart(1, Other)
    \/ RelayStep(1)

\* the same, its consumer pulling for as long as there is something to pull
SpecOneRelay ==
    /\ Init
    /\ [][NextOneRelay]_vars
    /\ WF_vars(RelayStep(1))

\* orders of one mode each, their cancels, one relay and the daemon's reports
LifeArgs == {a \in SendArgs : a.action # "buy"}

NextLife ==
    \/ GetOrders
    \/ \E a \in LifeArgs : Send(a)
    \/ Cancel("abc-1")
    \/ RelayStart(1, Other)
    \/ RelayStep(1)
    \/ \E u \in Uuids, ev \in Responses : DaemonReports(u, ev)

SpecLife == Init /\ [][NextLife]_vars


\* ------------------------------------------------------------------ properties

\* the commands the relays have yielded, in the order they were yielded
Yielded == [i \in 1..Len(forwarded) |-> forwarded[i].cmd]

\* an OrderBook method call has just been made by this step
CallStep == ncalls' = ncalls + 1

InSeq(x, s) == \E i \in 1..Len(s) : s[i] = x

\* C1: the commands yielded by the relay are a prefix of the commands
\* enqueued, in the same order, and what is not yet yielded is exactly the
\* content of the channel: nothing is reordered, merged, batched or skipped.
C1_RelayIsFifo ==
    /\ IsPrefix(Yielded, enqueued)
    /\ enqueued = Yielded \o chan

\* a send was refused by the full channel, the relay then drained it and a
\* later send went through: a cancel has been yielded between two different
\* send commands
C1_Witness ==
    /\ ncalls = MaxCalls
    /\ Len(enqueued) = 3
    /\ Len(forwarded) = 3
    /\ Yielded[1].action = "buy"
    /\ Yielded[2].action = "cancel"
    /\ Yielded[3].action = "alert"

\* C2: the registry has exactly one entry per order id passed to send, the
\* entry carries the arguments of the last send for that id, and a send that
\* returns returns the command then stored under its id.
C2_RegistryHoldsLastSend ==
    /\ DOMAIN sent_orders = DOMAIN sent_args
    /\ \A u \in DOMAIN sent_args :
          /\ sent_orders[u].action = sent_args[u].action
          /\ sent_orders[u].price = sent_args[u].price
          /\ sent_orders[u].size = sent_args[u].size
          /\ sent_orders[u].symbol = sent_args[u].symbol.key
          /\ sent_orders[u].brokers = sent_args[u].symbol.brokers
          /\ sent_orders[u].oid = u
          /\ sent_orders[u].exec_mode = sent_args[u].exec_mode
    /\ last.op = "send" =>
          /\ last.uuid \in DOMAIN sent_orders
          /\ last.raised = "none" => last.ret = <<sent_orders[last.uuid]>>

\* two ids are registered and the entry of abc-1 has been overwritten by a
\* second send for it
C2_Witness ==
    /\ DOMAIN sent_orders = Uuids
    /\ last.op = "send"
    /\ last.uuid = "abc-1"
    /\ last.raised = "none"
    /\ sent_orders["abc-1"].action = "sell"
    /\ \E i \in 1..Len(enqueued) :
          enqueued[i].oid = "abc-1" /\ enqueued[i].action = "buy"

\* send, or cancel of a registered id, is called by this step
EnqueueAttempt ==
    /\ CallStep
    /\ \/ last'.op = "send"
       \/ last'.op = "cancel" /\ last'.uuid \in DOMAIN sent_orders

\* C3: the channel never holds more than its capacity, and an enqueue
\* attempted on a full channel ends at once with WouldBlock and leaves the
\* channel as it was.
C3_FullChannelRefuses ==
    /\ [](Len(chan) <= Capacity)
    /\ [][(EnqueueAttempt /\ Len(chan) = Capacity) =>
             /\ last'.raised = "WouldBlock"
             /\ chan' = chan
             /\ enqueued' = enqueued]_vars

\* a cancel of a registered id was refused by the full channel
C3_Witness ==
    /\ last.op = "cancel"
    /\ last.raised = "WouldBlock"
    /\ Len(chan) = Capacity

\* C4: every registry entry is a command that is in the channel or was
\* taken from it by the relay.
C4_RegistryEntriesWereSent ==
    \A u \in DOMAIN sent_orders :
        InSeq(sent_orders[u], chan) \/ InSeq(sent_orders[u], Yielded)

\* C5: cancel of an id that is not in the registry raises KeyError, enqueues
\* nothing and leaves the registry as it was.
C5_CancelUnknownRaises ==
    [][(CallStep /\ last'.op = "cancel" /\ last'.uuid \notin DOMAIN sent_orders) =>
          /\ last'.raised = "KeyError"
          /\ chan' = chan
          /\ enqueued' = enqueued
          /\ sent_orders' = sent_orders]_vars

\* cancel of abc-2 raised KeyError while abc-1 was registered and queued
C5_Witness ==
    /\ last.op = "cancel"
    /\ last.uuid = "abc-2"
    /\ last.raised = "KeyError"
    /\ DOMAIN sent_orders = {"abc-1"}
    /\ chan # <<>>

\* C6: cancel of a registered id, with room in the channel, appends exactly
\* the message {action: cancel, oid: the id, symbol: the symbol of the stored
\* command} and leaves the registry as it was.
C6_CancelEnqueuesCancelMsg ==
    [][\A u \in DOMAIN sent_orders :
          (CallStep /\ last'.op = "cancel" /\ last'.uuid = u
                    /\ Len(chan) < Capacity) =>
             /\ last'.raised = "none"
             /\ chan' = Append(chan, [action |-> "cancel", oid |-> u,
                                      symbol |-> sent_orders[u].symbol])
             /\ sent_orders' = sent_orders]_vars

\* abc-1 was sent twice and then cancelled: the message carries the symbol
\* of the second send and the registry still holds that send
C6_Witness ==
    /\ last.op = "cancel"
    /\ last.uuid = "abc-1"
    /\ last.raised = "none"
    /\ chan # <<>>
    /\ chan[Len(chan)] = [action |-> "cancel", oid |-> "abc-1", symbol |-> "MSFT"]
    /\ "abc-1" \in DOMAIN sent_orders
    /\ sent_orders["abc-1"].action = "sell"
    /\ \E i \in 1..Len(enqueued) : enqueued[i].action = "buy"

\* C7: modify ends with an error and changes neither the registry nor the
\* channel.
C7_ModifyFails ==
    [][(CallStep /\ last'.op = "modify") =>
          /\ last'.raised # "none"
          /\ sent_orders' = sent_orders
          /\ chan' = chan]_vars

\* the daemon of scope s has called send_order_cmds()
Attached(s) == \E r \in Relays : relay[r].pc # "none" /\ relay[r].owner = s

\* C8: when open_ems has yielded (book, trades_stream), a relay generator
\* driven by the daemon of that same scope has been started.
C8_YieldMeansOwnDaemonAttached ==
    \A s \in Sessions : pc[s] = "yielded" => Attached(s)

\* C9: when the deadline passes with the event unset, TooSlowError is raised
\* in the scope; a scope that timed out never yields and never returns
\* normally; while it is not over its unwinding can go on (its daemon is
\* being stopped, or has stopped and the scope can raise); and once it is
\* over it has raised, its daemon is stopped and its stream is closed.
C9_TimeoutFailsAndUnwinds ==
    /\ [][\A s \in Sessions :
            /\ (pc[s] = "waiting" /\ clock'[s] >= Deadline) =>
                  (err'[s] = "TooSlowError" /\ pc'[s] = "cancelling")
            /\ err[s] = "TooSlowError" =>
                  (err'[s] = "TooSlowError" /\ pc'[s] \in {"cancelling", "raised"})]_vars
    /\ [](\A s \in Sessions :
            err[s] = "TooSlowError" =>
                IF Ended(s)
                THEN pc[s] = "raised" /\ daemon[s] = "stopped" /\ stream[s] = "closed"
                ELSE ENABLED (DaemonCancelled(s) \/ ScopeExit(s)))

\* the same as progress: under the fairness of SpecEmsFair a scope that
\* timed out does raise, with its daemon stopped
TimeoutLeadsToRaised ==
    \A s \in Sessions :
        (err[s] = "TooSlowError") ~> (pc[s] = "raised" /\ daemon[s] = "stopped")

\* a scope waited the whole deadline, raised TooSlowError and is over, with
\* its daemon stopped
C9_Witness ==
    \E s \in Sessions :
        /\ pc[s] = "raised"
        /\ err[s] = "TooSlowError"
        /\ clock[s] = Deadline
        /\ daemon[s] = "stopped"
        /\ ~ready_to_receive

\* C10: a scope that is being released can always go on: its daemon is
\* being stopped or has stopped, so that the release completes; and a scope
\* that is over has no running daemon and no open stream.
C10_ReleaseCompletes ==
    \A s \in Sessions :
        /\ pc[s] \in {"joining", "cancelling"} =>
              ENABLED (DaemonCancelled(s) \/ ScopeExit(s))
        /\ Ended(s) => (daemon[s] = "stopped" /\ stream[s] = "closed")

\* C12: a generator sets the event when it starts and yields nothing in
\* that step; whenever a command is yielded the event is already set, so no
\* command has been forwarded while the event is unset.
C12_GateSetBeforeAnyYield ==
    /\ [](forwarded # <<>> => ready_to_receive)
    /\ [][/\ forwarded' # forwarded => ready_to_receive
          /\ \A r \in Relays :
                (relay[r].pc = "none" /\ relay'[r].pc = "running") =>
                    (ready_to_receive' /\ forwarded' = forwarded)]_vars

\* the channel was filled and a further enqueue refused, and the commands
\* that had been waiting in it have been yielded with the event set
C12_Witness ==
    /\ ready_to_receive
    /\ ncalls = Capacity + 1
    /\ last.raised = "WouldBlock"
    /\ Len(enqueued) = Capacity
    /\ Len(forwarded) = Capacity

\* C14: while two generators are iterating, a command that one of them
\* takes has been received by the other or can still be received by it.
C14_EveryConsumerReceives ==
    [][\A r, q \in Relays :
          (/\ r # q
           /\ relay[r].pc = "running"
           /\ relay[q].pc = "running"
           /\ chan # <<>>
           /\ forwarded' = Append(forwarded, [cmd |-> Head(chan), by |-> r])) =>
             \/ InSeq(Head(chan), chan')
             \/ InSeq([cmd |-> Head(chan), by |-> q], forwarded')]_vars

\* C19: every command in the channel or yielded by a relay carries an
\* order id that is a key of the registry, and no step removes a key from
\* the registry.
C19_OidsAreRegistered ==
    /\ [](\A i \in 1..Len(enqueued) : enqueued[i].oid \in DOMAIN sent_orders)
    /\ [](\A i \in 1..Len(chan) : chan[i].oid \in DOMAIN sent_orders)
    /\ [](\A i \in 1..Len(Yielded) : Yielded[i].oid \in DOMAIN sent_orders)
    /\ [][DOMAIN sent_orders \subseteq DOMAIN sent_orders']_vars

\* both ids are registered, a cancel of abc-2 has been yielded and a send
\* for abc-1 overwrote its entry after the first one was yielded
C19_Witness ==
    /\ DOMAIN sent_orders = Uuids
    /\ \E i \in 1..Len(Yielded) :
          Yielded[i].action = "cancel" /\ Yielded[i].oid = "abc-2"
    /\ \E i \in 1..Len(Yielded) : Yielded[i].action = "buy"
    /\ sent_orders["abc-1"].action = "sell"

\* C18: with one generator running and its consumer pulling, the n-th
\* command enqueued is eventually the n-th command yielded, and at every
\* moment the commands yielded are the first of those enqueued, one for one,
\* the others being still in the channel: none is lost, none comes twice.
C18_EveryCommandYieldedOnce ==
    /\ [](/\ Len(forwarded) + Len(chan) = Len(enqueued)
          /\ \A i \in 1..Len(forwarded) : Yielded[i] = enqueued[i])
    /\ \A n \in 1..MaxCalls :
          (relay[1].pc = "running" /\ Len(enqueued) >= n)
              ~> (Len(forwarded) >= n /\ Yielded[n] = enqueued[n])

\* every call enqueued a command and all of them have been yielded
C18_Witness ==
    /\ relay[1].pc = "running"
    /\ Len(enqueued) = MaxCalls
    /\ Len(forwarded) = MaxCalls
    /\ chan = <<>>

\* the acquisition part of open_ems: from entry to the yield
Acquiring(s) == pc[s] \in {"started", "waiting"}

\* C16: an open_ems that is acquiring is never waiting on the daemon alone:
\* either its wait can return or the deadline's clock is running on it.
C16_AcquisitionBounded ==
    \A s \in Sessions : Acquiring(s) => ENABLED (WaitReturns(s) \/ Tick(s))

\* C17: the event, once set, stays set through every step; and a wait on
\* it while it is set returns without any time passing.
C17_GateIsOneShot ==
    /\ [][ready_to_receive => ready_to_receive']_vars
    /\ [](\A s \in Sessions :
            (pc[s] = "waiting" /\ ready_to_receive) =>
                (ENABLED WaitReturns(s) /\ ~ENABLED Tick(s)))
    /\ [][\A s \in Sessions :
            (pc[s] = "started" /\ pc'[s] = "waiting" /\ ready_to_receive) =>
                (ready_to_receive' /\ clock'[s] = 0)]_vars

\* a scope has ended whose daemon had set the event, and a later scope
\* begins its wait with the event still set
C17_Witness ==
    \E s, t \in Sessions :
        /\ Ended(t)
        /\ Attached(t)
        /\ pc[s] = "waiting"
        /\ clock[s] = 0
        /\ ready_to_receive

\* C11: when a scope is entered after another one has ended, the registry
\* and the channel are empty and the event is unset (so that nothing queued
\* in the earlier session is left for the relay of the later one).
C11_SessionsAreIsolated ==
    [][\A s \in Sessions :
          (pc[s] = "idle" /\ pc'[s] = "started" /\ \E t \in Sessions : Ended(t)) =>
             /\ sent_orders' = EmptyDict
             /\ chan' = <<>>
             /\ ~ready_to_receive']_vars

\* C13: cancel of a registered id enqueues its cancel message whatever the
\* stream has reported about the order (nothing, submitted or a terminal
\* state) and however many cancels went before; and every cancel message
\* enqueued is in the channel or was yielded by the relay: none is dropped.
C13_CancelNeverSuppressed ==
    /\ [][\A u \in DOMAIN sent_orders :
             (CallStep /\ last'.op = "cancel" /\ last'.uuid = u
                       /\ Len(chan) < Capacity) =>
                LET msg == [action |-> "cancel", oid |-> u,
                            symbol |-> sent_orders[u].symbol]
                IN /\ chan' = Append(chan, msg)
                   /\ enqueued' = Append(enqueued, msg)]_vars
    /\ [](Yielded \o chan = enqueued)

\* abc-1 was reported terminal, then cancelled twice, and the relay has
\* yielded both cancel messages
C13_Witness ==
    \E e \in 1..Len(events), i, j \in 1..Len(forwarded) :
        /\ events[e].oid = "abc-1"
        /\ IsTerminal(events[e].ev)
        /\ events[e].at < i
        /\ i < j
        /\ Yielded[i] = [action |-> "cancel", oid |-> "abc-1", symbol |-> "MSFT"]
        /\ Yielded[j] = Yielded[i]

====
